---- MODULE Spec2Model ----
(***************************************************************************)
(* Model of internal/request/request.go: the Request type, its query type  *)
(* inference (ParseQuery) and the decode/validate pipeline (Validate).     *)
(*                                                                         *)
(* A raw query value is a sequence of one-character strings.  A typed      *)
(* value stored in Query is a record                                       *)
(*     [kind, neg, mant, exp, str]                                         *)
(* kind "int":    neg/mant are the sign and the decimal digits without     *)
(*                leading zeros (zero is mant = <<>>);                     *)
(* kind "float":  the value is 0.mant * 10^exp with mant stripped of       *)
(*                leading and trailing zeros; str marks Inf and NaN;       *)
(* kind "bool":   str is <<"true">> or <<"false">>;                        *)
(* kind "string": str is the raw value.                                    *)
(***************************************************************************)
EXTENDS Integers, Sequences, FiniteSets, TLC

(* ------------------------------ bounds -------------------------------- *)

\* Longest raw query value enumerated character by character.
MaxLen == 3

\* How many times a caller applies ParseQuery directly in SpecInfer.
MaxCalls == 2

(* --------------------------- strconv helpers --------------------------- *)

Digit == {"0", "1", "2", "3", "4", "5", "6", "7", "8", "9"}

DigitVal(c) ==
    CASE c = "0" -> 0 [] c = "1" -> 1 [] c = "2" -> 2 [] c = "3" -> 3
      [] c = "4" -> 4 [] c = "5" -> 5 [] c = "6" -> 6 [] c = "7" -> 7
      [] c = "8" -> 8 [] c = "9" -> 9

\* strconv's lower(c): ASCII lower-casing, on the letters the parsers compare.
Lower(c) ==
    CASE c = "I" -> "i" [] c = "N" -> "n" [] c = "F" -> "f" [] c = "A" -> "a"
      [] c = "T" -> "t" [] c = "Y" -> "y" [] c = "E" -> "e" [] c = "X" -> "x"
      [] c = "B" -> "b" [] c = "O" -> "o"
      [] OTHER -> c

Repeat(c, n) == [i \in 1..n |-> c]

DropFirst(s, n) == SubSeq(s, n + 1, Len(s))

Minimum(S) == CHOOSE x \in S : \A y \in S : x <= y

Maximum(S) == CHOOSE x \in S : \A y \in S : x >= y

IsDigit(c) == c \in Digit

\* The digits from the first non-zero one on.
StripLeadingZeros(d) ==
    LET nz == {i \in 1..Len(d) : d[i] # "0"}
    IN  IF nz = {} THEN <<>> ELSE SubSeq(d, Minimum(nz), Len(d))

\* The digits up to the last non-zero one.
StripTrailingZeros(d) ==
    LET nz == {i \in 1..Len(d) : d[i] # "0"}
    IN  IF nz = {} THEN <<>> ELSE SubSeq(d, 1, Maximum(nz))

\* a < b for digit sequences compared digit by digit from the left; a
\* sequence that is a proper prefix of the other is the smaller one.
RECURSIVE DigitsLess(_, _)
DigitsLess(a, b) ==
    IF b = <<>> THEN FALSE
    ELSE IF a = <<>> THEN TRUE
    ELSE IF DigitVal(Head(a)) # DigitVal(Head(b))
         THEN DigitVal(Head(a)) < DigitVal(Head(b))
    ELSE DigitsLess(Tail(a), Tail(b))

\* a <= b for magnitudes written without leading zeros.
MagLeq(a, b) ==
    \/ Len(a) < Len(b)
    \/ Len(a) = Len(b) /\ ~DigitsLess(b, a)

\* 2^63 - 1 and 2^63, the largest magnitudes of a non-negative and of a
\* negative value of Go's int on a 64-bit build (strconv.IntSize = 64).
MaxIntMag ==
    <<"9","2","2","3","3","7","2","0","3","6","8","5","4","7","7","5","8","0","7">>

MinIntMag ==
    <<"9","2","2","3","3","7","2","0","3","6","8","5","4","7","7","5","8","0","8">>

ErrNil == "nil"
ErrSyntax == "strconv.ErrSyntax"
ErrRange == "strconv.ErrRange"

TypedValue(k, n, m, e, s) == [kind |-> k, neg |-> n, mant |-> m, exp |-> e, str |-> s]

\* AtoiRange without the range check: the value wraps instead of failing.
AtoiRange_Unchecked(neg, mag) ==
    [err |-> ErrNil, val |-> TypedValue("int", neg /\ mag # <<>>, mag, 0, <<>>)]

\* The range check of ParseInt on the magnitude, leading zeros removed.
AtoiRange(neg, mag) ==
    IF ~MagLeq(mag, IF neg THEN MinIntMag ELSE MaxIntMag)
    THEN [err |-> ErrRange,
          val |-> TypedValue("int", neg, IF neg THEN MinIntMag ELSE MaxIntMag, 0, <<>>)]
    ELSE [err |-> ErrNil, val |-> TypedValue("int", neg /\ mag # <<>>, mag, 0, <<>>)]

\* The digits after the sign: at least one, and nothing but digits.
AtoiDigits(neg, digits) ==
    IF digits = <<>> \/ \E i \in 1..Len(digits) : digits[i] \notin Digit
    THEN [err |-> ErrSyntax, val |-> TypedValue("int", FALSE, <<>>, 0, <<>>)]
    ELSE AtoiRange(neg, StripLeadingZeros(digits))

\* strconv.Atoi(s): an optional sign, then one or more decimal digits and
\* nothing else; ErrRange when the value does not fit the int type.
Atoi(s) ==
    IF Len(s) >= 1 /\ s[1] \in {"+", "-"}
    THEN AtoiDigits(s[1] = "-", Tail(s))
    ELSE AtoiDigits(FALSE, s)

\* strconv.ParseBool(s): exactly the twelve accepted spellings.
ParseBool(s) ==
    IF s \in {<<"1">>, <<"t">>, <<"T">>, <<"T","R","U","E">>,
              <<"t","r","u","e">>, <<"T","r","u","e">>}
    THEN [err |-> ErrNil, val |-> TypedValue("bool", FALSE, <<>>, 0, <<"true">>)]
    ELSE IF s \in {<<"0">>, <<"f">>, <<"F">>, <<"F","A","L","S","E">>,
                   <<"f","a","l","s","e">>, <<"F","a","l","s","e">>}
    THEN [err |-> ErrNil, val |-> TypedValue("bool", FALSE, <<>>, 0, <<"false">>)]
    ELSE [err |-> ErrSyntax, val |-> TypedValue("bool", FALSE, <<>>, 0, <<"false">>)]

(* ------------------------- strconv.ParseFloat -------------------------- *)

Infinity == <<"i","n","f","i","n","i","t","y">>

\* commonPrefixLenIgnoreCase(s, prefix), prefix in lower case.
RECURSIVE CommonPrefixLenIgnoreCase(_, _)
CommonPrefixLenIgnoreCase(s, prefix) ==
    IF s = <<>> \/ prefix = <<>> THEN 0
    ELSE IF Lower(Head(s)) = Head(prefix)
         THEN 1 + CommonPrefixLenIgnoreCase(Tail(s), Tail(prefix))
    ELSE 0

NoFloat == [ok |-> FALSE, n |-> 0, val |-> TypedValue("float", FALSE, <<>>, 0, <<>>)]

\* special's "inf" case: n0 characters of "infinity" matched after nsign
\* sign characters; only "inf" and "infinity" count.
SpecialInf(neg, nsign, n0) ==
    IF n0 = 8 THEN [ok |-> TRUE, n |-> nsign + 8,
                    val |-> TypedValue("float", neg, <<>>, 0, <<"Inf">>)]
    ELSE IF n0 >= 3 THEN [ok |-> TRUE, n |-> nsign + 3,
                          val |-> TypedValue("float", neg, <<>>, 0, <<"Inf">>)]
    ELSE NoFloat

\* special(s): the Inf and NaN spellings; n is the number of characters used.
Special(s) ==
    IF s = <<>> THEN NoFloat
    ELSE IF s[1] \in {"+", "-"}
    THEN SpecialInf(s[1] = "-", 1, CommonPrefixLenIgnoreCase(Tail(s), Infinity))
    ELSE IF Lower(s[1]) = "i"
    THEN SpecialInf(FALSE, 0, CommonPrefixLenIgnoreCase(s, Infinity))
    ELSE IF Lower(s[1]) = "n" /\ CommonPrefixLenIgnoreCase(s, <<"n", "a", "n">>) = 3
    THEN [ok |-> TRUE, n |-> 3, val |-> TypedValue("float", FALSE, <<>>, 0, <<"NaN">>)]
    ELSE NoFloat

MinimumOr(S, default) == IF S = {} THEN default ELSE Minimum(S)

\* Where readFloat's mantissa loop, started at i0, stops: at a second point
\* or at the first character that is no digit, underscore or point.
MantissaEnd(s, i0) ==
    MinimumOr({i \in i0..Len(s) :
                  \/ s[i] \notin Digit \cup {"_", "."}
                  \/ s[i] = "." /\ \E j \in i0..(i - 1) : s[j] = "."},
              Len(s) + 1)

\* What the loop has taken when it stops at end: D the digits, dp the
\* number of digits before the point (all of them without a point).
MantissaTaken(s, i0, end) ==
    [i         |-> end,
     sawdigits |-> \E i \in i0..(end - 1) : s[i] \in Digit,
     us        |-> \E i \in i0..(end - 1) : s[i] = "_",
     D         |-> SelectSeq(SubSeq(s, i0, end - 1), IsDigit),
     dp        |-> Len(SelectSeq(
                     SubSeq(s, i0, MinimumOr({i \in i0..(end - 1) : s[i] = "."}, end) - 1),
                     IsDigit))]

\* readFloat's mantissa loop from position i0.
ScanMantissa(s, i0) == MantissaTaken(s, i0, MantissaEnd(s, i0))

\* readFloat's exponent loop: digits and underscores, the value capped.
RECURSIVE ScanExponent(_, _)
ScanExponent(s, st) ==
    IF st.i > Len(s) THEN st
    ELSE IF s[st.i] = "_"
         THEN ScanExponent(s, [st EXCEPT !.i = @ + 1, !.us = TRUE])
    ELSE IF s[st.i] \in Digit
         THEN ScanExponent(s, [st EXCEPT !.i = @ + 1,
                  !.e = IF @ < 10000 THEN @ * 10 + DigitVal(s[st.i]) ELSE @])
    ELSE st

\* underscoreOK's scan; saw is the class of the last character seen.
RECURSIVE UnderscoreScan(_, _)
UnderscoreScan(s, saw) ==
    IF s = <<>> THEN saw # "_"
    ELSE IF Head(s) \in Digit THEN UnderscoreScan(Tail(s), "0")
    ELSE IF Head(s) = "_"
         THEN saw = "0" /\ UnderscoreScan(Tail(s), "_")
    ELSE saw # "_" /\ UnderscoreScan(Tail(s), "!")

\* underscoreOK(s): every underscore separates two digits (or follows a base
\* prefix).
UnderscoreOK(s) ==
    LET t == IF Len(s) >= 1 /\ s[1] \in {"+", "-"} THEN Tail(s) ELSE s
        prefixed == Len(t) >= 2 /\ t[1] = "0" /\ Lower(t[2]) \in {"b", "o", "x"}
    IN  IF prefixed THEN UnderscoreScan(DropFirst(t, 2), "0")
        ELSE UnderscoreScan(t, "^")

FloatFail == [ok |-> FALSE, n |-> 0, neg |-> FALSE, D |-> <<>>, exp |-> 0]

\* The end of readFloat: the underscore test, then the value
\* 0.D * 10^(dp + e) and the number of characters used.
FloatDone(s, m, end, us, e) ==
    IF us /\ ~UnderscoreOK(SubSeq(s, 1, end - 1)) THEN FloatFail
    ELSE [ok |-> TRUE, n |-> end - 1, neg |-> s[1] = "-", D |-> m.D, exp |-> m.dp + e]

WithExponent(s, m, x, esign) == FloatDone(s, m, x.i, m.us \/ x.us, esign * x.e)

\* The exponent after the "e": an optional sign (j1 is the position after
\* it), then at least one digit.
ReadExponent(s, m, j1) ==
    IF j1 > Len(s) \/ s[j1] \notin Digit THEN FloatFail
    ELSE WithExponent(s, m, ScanExponent(s, [i |-> j1, e |-> 0, us |-> FALSE]),
                      IF s[m.i + 1] = "-" THEN -1 ELSE 1)

AfterSign(s, j) == IF j <= Len(s) /\ s[j] \in {"+", "-"} THEN j + 1 ELSE j

ReadFloatTail(s, m) ==
    IF ~m.sawdigits THEN FloatFail
    ELSE IF m.i <= Len(s) /\ Lower(s[m.i]) = "e"
    THEN ReadExponent(s, m, AfterSign(s, m.i + 1))
    ELSE FloatDone(s, m, m.i, m.us, 0)

\* readFloat(s) for the decimal syntax: sign, mantissa, optional exponent.
\* (The hexadecimal syntax needs an "x" after a leading zero; no raw value of
\* the model holds one.)
ReadFloat(s) == ReadFloatTail(s, ScanMantissa(s, AfterSign(s, 1)))

\* The leading digits of 2^1024 - 2^970 = 1.7976931348623158079...e308, the
\* least magnitude that rounds to infinity, and of 2^-1075 =
\* 2.4703282292062327...e-324, the greatest that rounds to zero.
Float64Overflow ==
    <<"1","7","9","7","6","9","3","1","3","4","8","6","2","3","1","5","8","0","7","9">>

Float64Underflow ==
    <<"2","4","7","0","3","2","8","2","2","9","2","0","6","2","3","2","7">>

\* The float64 nearest to 0.mant * 10^exp10 (mant without leading and
\* trailing zeros): ErrRange when it is too large, zero when too small.
RoundFloat(neg, mant, exp10) ==
    IF mant # <<>> /\ (\/ exp10 > 309
                       \/ exp10 = 309 /\ ~DigitsLess(mant, Float64Overflow))
    THEN [err |-> ErrRange, val |-> TypedValue("float", neg, <<>>, 0, <<"Inf">>)]
    ELSE IF \/ mant = <<>>
            \/ exp10 < -323
            \/ exp10 = -323 /\ ~DigitsLess(Float64Underflow, mant)
    THEN [err |-> ErrNil, val |-> TypedValue("float", neg, <<>>, 0, <<>>)]
    ELSE [err |-> ErrNil, val |-> TypedValue("float", neg, mant, exp10, <<>>)]

FloatValue(neg, D, exp, d0) ==
    RoundFloat(neg, StripTrailingZeros(d0), exp - (Len(D) - Len(d0)))

FloatResult(s, sp, rf) ==
    IF sp.ok
    THEN IF sp.n = Len(s) THEN [err |-> ErrNil, val |-> sp.val]
         ELSE [err |-> ErrSyntax, val |-> NoFloat.val]
    ELSE IF ~rf.ok \/ rf.n # Len(s) THEN [err |-> ErrSyntax, val |-> NoFloat.val]
    ELSE FloatValue(rf.neg, rf.D, rf.exp, StripLeadingZeros(rf.D))

\* strconv.ParseFloat(s, 64): the special spellings first, then the decimal
\* syntax; the whole string must be used.
ParseFloat(s) == FloatResult(s, Special(s), ReadFloat(s))

(* ----------------------------- ParseQuery ------------------------------ *)

\* InferValue with the boolean parser tried first.
InferValue_BoolFirst(value) ==
    IF ParseBool(value).err = ErrNil THEN ParseBool(value).val
    ELSE IF Atoi(value).err = ErrNil THEN Atoi(value).val
    ELSE IF ParseFloat(value).err = ErrNil THEN ParseFloat(value).val
    ELSE TypedValue("string", FALSE, <<>>, 0, value)

\* InferValue whose fallback stores an empty string.
InferValue_EmptyFallback(value) ==
    IF Atoi(value).err = ErrNil THEN Atoi(value).val
    ELSE IF ParseFloat(value).err = ErrNil THEN ParseFloat(value).val
    ELSE IF ParseBool(value).err = ErrNil THEN ParseBool(value).val
    ELSE TypedValue("string", FALSE, <<>>, 0, <<>>)

\* Lines 43-55: the first parser that accepts the value decides its type.
InferValue(value) ==
    IF Atoi(value).err = ErrNil THEN Atoi(value).val
    ELSE IF ParseFloat(value).err = ErrNil THEN ParseFloat(value).val
    ELSE IF ParseBool(value).err = ErrNil THEN ParseBool(value).val
    ELSE TypedValue("string", FALSE, <<>>, 0, value)

(* ------------------------------- state --------------------------------- *)

VARIABLES
    pc,            \* position of the running call: the stage about to execute
    target,        \* what the caller passed as `request` (first argument)
    recv,          \* the Request the method was called on (`r`)
    stream,        \* req.Body: the read error it will report and its bytes
    body,          \* the bytes io.ReadAll returned
    bodyReads,     \* how many times the body stream has been read
    bodyClosed,    \* req.Body.Close() has run
    closeDeferred, \* `defer req.Body.Close()` has been registered
    entity,        \* the target's own decoded fields
    Query,         \* the Query field of each Request instance
    query,         \* req.URL.Query(): parameter name -> its raw values
    rules,         \* what the target's Rules() returns
    calls,         \* the calls made so far, each with the error it returned
    result,        \* what Validate returned
    entry,         \* the target as it was when Validate was called
    ncalls,        \* direct applications of ParseQuery (SpecInfer)
    conc           \* two concurrent calls of Validate (SpecConc)

vars == <<pc, target, recv, stream, body, bodyReads, bodyClosed, closeDeferred,
          entity, Query, query, rules, calls, result, entry, ncalls, conc>>

\* The state of the single call of Spec and SpecInfer.
seqVars == <<pc, target, recv, stream, body, bodyReads, bodyClosed, closeDeferred,
             entity, Query, query, rules, calls, result, entry, ncalls>>

(* ------------------------------- maps ---------------------------------- *)

EmptyMap == [k \in {} |-> TypedValue("string", FALSE, <<>>, 0, <<>>)]

\* A Go map field: nil, or a map from keys to typed values.
NilMap == [isNil |-> TRUE, m |-> EmptyMap]

MakeMap(f) == [isNil |-> FALSE, m |-> f]

\* ParseQuery that assigns a fresh map instead of writing into the old one.
ParseQuery_Replace(Q, queryParams) ==
    MakeMap([key \in DOMAIN queryParams |-> InferValue(queryParams[key][1])])

\* ParseQuery that leaves alone an entry Query already has.
ParseQuery_KeepsExisting(Q, queryParams) ==
    LET base == IF Q.isNil THEN EmptyMap ELSE Q.m
    IN  MakeMap([key \in DOMAIN base \cup DOMAIN queryParams |->
                    IF key \in DOMAIN base THEN base[key]
                    ELSE InferValue(queryParams[key][1])])

\* ParseQuery that adds to an entry already there, as url.Values.Add does,
\* instead of setting it.
ParseQuery_Accumulates(Q, queryParams) ==
    LET base == IF Q.isNil THEN EmptyMap ELSE Q.m
    IN  MakeMap([key \in DOMAIN base \cup DOMAIN queryParams |->
                    IF key \notin DOMAIN queryParams THEN base[key]
                    ELSE IF key \notin DOMAIN base THEN InferValue(queryParams[key][1])
                    ELSE TypedValue("string", FALSE, <<>>, 0,
                                    base[key].str \o queryParams[key][1])])

\* ParseQuery that infers from the last value of a parameter.
ParseQuery_LastValue(Q, queryParams) ==
    LET base == IF Q.isNil THEN EmptyMap ELSE Q.m
    IN  MakeMap([key \in DOMAIN base \cup DOMAIN queryParams |->
                    IF key \in DOMAIN queryParams
                    THEN InferValue(queryParams[key][Len(queryParams[key])])
                    ELSE base[key]])

\* Lines 28-57.  A nil Query is replaced by an empty map; then every
\* parameter's first value is inferred and stored under its name.
ParseQuery(Q, queryParams) ==
    LET base == IF Q.isNil THEN EmptyMap ELSE Q.m
    IN  MakeMap([key \in DOMAIN base \cup DOMAIN queryParams |->
                    IF key \in DOMAIN queryParams
                    THEN InferValue(queryParams[key][1])
                    ELSE base[key]])

(* ------------------------------ inputs --------------------------------- *)

\* The characters raw values are enumerated over, up to MaxLen of them.
Chars == {"0", "1", "-", ".", "_", "e", "t"}

ShortValues == UNION {[1..n -> Chars] : n \in 0..MaxLen}

\* Raw values picked for what the parsers do with them.
LongValues ==
    { MaxIntMag, MinIntMag, <<"-">> \o MaxIntMag, <<"-">> \o MinIntMag,
      <<"-">> \o SubSeq(MinIntMag, 1, 18) \o <<"9">>,
      <<"0", "0">> \o MaxIntMag, <<"0">> \o MinIntMag,
      Repeat("9", 20), Repeat("1", 309), Repeat("9", 309), Repeat("9", 310),
      <<"+", "1">>, <<"+">>, <<"4", "2">>, <<"+", ".", "5">>,
      <<"1", "e", "9", "9", "9">>, <<"1", "e", "-", "9", "9", "9">>,
      <<"t", "r", "u", "e">>, <<"T", "R", "U", "E">>, <<"T", "r", "u", "e">>,
      <<"t", "R", "U", "E">>, <<"f", "a", "l", "s", "e">>, <<"F">>, <<"T">>,
      <<"i", "n", "f">>, <<"-", "I", "n", "f">>, <<"i", "n", "f", "i">>,
      <<"i", "n", "f", "i", "n", "i", "t", "y">>, <<"N", "a", "N">>,
      <<"+", "n", "a", "n">>, <<"x">>, <<" ", "1">>, <<"1", "2", "a">> }

RawValues == ShortValues \cup LongValues

NoParams == [k \in {} |-> <<>>]

SecondValues == {<<"1">>, <<"x">>}

\* req.URL.Query() as ParseQuery is applied to it directly: one parameter
\* with any raw value, alone, followed by a second value, or next to a
\* second parameter.
InferQueries ==
    {NoParams}
      \cup {[k \in {"a"} |-> <<v>>] : v \in RawValues}
      \cup {[k \in {"a"} |-> <<v, w>>] : v \in RawValues, w \in SecondValues}
      \cup {[k \in {"a", "b"} |-> IF k = "a" THEN <<v>> ELSE <<w>>] :
                v \in RawValues, w \in SecondValues}

PipelineValues ==
    {<<"3", "0">>, <<"1", ".", "5">>, <<"t", "r", "u", "e">>, <<"x">>, <<>>}

\* req.URL.Query() of the requests passed to Validate.
PipelineQueries ==
    {NoParams}
      \cup {[k \in {"a"} |-> <<v>>] : v \in PipelineValues}
      \cup {[k \in {"a", "b"} |-> IF k = "a" THEN << <<"3", "0">> >> ELSE << <<"x">> >>],
            [k \in {"a"} |-> << <<"1">>, <<"x">> >>]}

StringValue(s) == TypedValue("string", FALSE, <<>>, 0, s)

\* Query maps a Request can hold before the call.
InitialQueries ==
    {NilMap,
     MakeMap([k \in {"a", "z"} |-> StringValue(<<"o", "l", "d">>)])}

\* A JSON member: absent, or present with a value.
Absent == [present |-> FALSE, val |-> ""]

Member(v) == [present |-> TRUE, val |-> v]

\* A JSON "Query" member: absent, null, or an object.
NoQueryMember == [present |-> FALSE, null |-> FALSE, obj |-> EmptyMap]

NullQueryMember == [present |-> TRUE, null |-> TRUE, obj |-> EmptyMap]

QueryMember(f) == [present |-> TRUE, null |-> FALSE, obj |-> f]

\* Request bodies.  valid: the bytes are well-formed JSON; mismatch: some
\* member's JSON type does not fit its field; name and Query: the members
\* that decode into the target's name field and its embedded Query field.
Bodies ==
    {[valid |-> FALSE, mismatch |-> FALSE, name |-> Absent, Query |-> NoQueryMember]}
      \cup [valid    : {TRUE},
            mismatch : BOOLEAN,
            name     : {Absent, Member(""), Member("a"), Member(" a")},
            Query    : {NoQueryMember, NullQueryMember,
                        QueryMember([k \in {"z"} |-> StringValue(<<"v">>)]),
                        QueryMember([k \in {"a"} |->
                            TypedValue("float", FALSE, <<"1", "5">>, 1, <<>>)])}]

NoBody == [valid |-> FALSE, mismatch |-> FALSE, name |-> Absent, Query |-> NoQueryMember]

ErrInvalidTarget == "se espera un puntero al tipo que implementa FormRequest"

ReadErrors == {"unexpected EOF", "connection reset"}

PrepareErrors == {"prepare: bad input", "prepare: not normalised"}

HookErrors == {"hook: inconsistent fields"}

ErrJSONSyntax == "json.SyntaxError"
ErrJSONType == "json.UnmarshalTypeError"
ErrJSONTarget == "json.InvalidUnmarshalError"
ErrNameRequired == "validation: name is required"

\* Request bodies as streams: a read fault, or the bytes of a body.
Streams ==
    {[err |-> e, data |-> NoBody] : e \in ReadErrors}
      \cup {[err |-> ErrNil, data |-> b] : b \in Bodies}

\* What `request` can be: the nil interface, a nil pointer of a request
\* type, a request value that is not a pointer, a pointer to a request.
Targets == {"nil", "typednil", "nonptr", "ptr"}

\* The Request instances: the one embedded in the target, and another one.
Requests == {"target", "other"}

\* What Rules() returns: the fields that must not be empty.
RuleSets == {{}, {"name"}}

(* ------------------------------ Validate ------------------------------- *)

\* reflect.ValueOf(request).Kind()
Kind(t) ==
    CASE t = "nil" -> "Invalid"
      [] t = "nonptr" -> "Struct"
      [] OTHER -> "Ptr"

\* reflect.Value.IsNil() of a pointer
IsNil(t) == t = "typednil"

\* The check without its IsNil half.
IsValidTarget_NoNilCheck(t) == Kind(t) = "Ptr"

\* Line 63, negated: the target passes the check.
IsValidTarget(t) == ~(Kind(t) # "Ptr" \/ IsNil(t))

Call(op, err) == [op |-> op, err |-> err]

\* A return that replaces the stage's error by one of its own.
Return_Rewrapped(err, log) ==
    /\ pc' = "Returned"
    /\ result' = IF err = ErrNil THEN ErrNil ELSE "validate: request rejected"
    /\ bodyClosed' = (bodyClosed \/ closeDeferred)
    /\ calls' = IF closeDeferred THEN Append(log, Call("Body.Close", ErrNil)) ELSE log

\* A return statement: the error goes to the caller and the deferred
\* Close, when registered, runs.
Return(err, log) ==
    /\ pc' = "Returned"
    /\ result' = err
    /\ bodyClosed' = (bodyClosed \/ closeDeferred)
    /\ calls' = IF closeDeferred THEN Append(log, Call("Body.Close", ErrNil)) ELSE log

\* A type check that hands the target on zeroed.
TypeCheckStage_ResetsTarget ==
    /\ pc = "TypeCheck"
    /\ Query' = [Query EXCEPT !["target"] = NilMap]
    /\ IF IsValidTarget(target)
       THEN /\ pc' = "BodyRead"
            /\ calls' = Append(calls, Call("TypeCheck", ErrNil))
            /\ UNCHANGED <<result, bodyClosed>>
       ELSE Return(ErrInvalidTarget, Append(calls, Call("TypeCheck", ErrInvalidTarget)))
    /\ UNCHANGED <<target, recv, stream, body, bodyReads, closeDeferred, entity,
                   query, rules, entry, ncalls, conc>>

\* Lines 62-65.
TypeCheckStage ==
    /\ pc = "TypeCheck"
    /\ IF IsValidTarget(target)
       THEN /\ pc' = "BodyRead"
            /\ calls' = Append(calls, Call("TypeCheck", ErrNil))
            /\ UNCHANGED <<result, bodyClosed>>
       ELSE Return(ErrInvalidTarget, Append(calls, Call("TypeCheck", ErrInvalidTarget)))
    /\ UNCHANGED <<target, recv, stream, body, bodyReads, closeDeferred, entity,
                   Query, query, rules, entry, ncalls, conc>>

\* BodyRead that reads the stream a second time after the first read.
BodyReadStage_ReadsTwice ==
    /\ pc = "BodyRead"
    /\ bodyReads' = bodyReads + 2
    /\ IF stream.err # ErrNil
       THEN /\ Return(stream.err, Append(calls, Call("io.ReadAll", stream.err)))
            /\ UNCHANGED <<body, closeDeferred>>
       ELSE /\ body' = stream.data
            /\ closeDeferred' = TRUE
            /\ pc' = "Decode"
            /\ calls' = Append(Append(calls, Call("io.ReadAll", ErrNil)),
                               Call("io.ReadAll", ErrNil))
            /\ UNCHANGED <<result, bodyClosed>>
    /\ UNCHANGED <<target, recv, stream, entity, Query, query, rules, entry, ncalls, conc>>

\* Lines 68-72: io.ReadAll, the error check, then the defer.
BodyReadStage ==
    /\ pc = "BodyRead"
    /\ bodyReads' = bodyReads + 1
    /\ IF stream.err # ErrNil
       THEN /\ Return(stream.err, Append(calls, Call("io.ReadAll", stream.err)))
            /\ UNCHANGED <<body, closeDeferred>>
       ELSE /\ body' = stream.data
            /\ closeDeferred' = TRUE
            /\ pc' = "Decode"
            /\ calls' = Append(calls, Call("io.ReadAll", ErrNil))
            /\ UNCHANGED <<result, bodyClosed>>
    /\ UNCHANGED <<target, recv, stream, entity, Query, query, rules, entry, ncalls, conc>>

\* json.Unmarshal(body, request) on a target with a name field and an
\* embedded Request: malformed bytes change nothing; otherwise every member
\* that fits is stored (an object merges into an existing map, null makes
\* the map nil) and a member that does not fit yields the type error after
\* the others have been stored.
Unmarshal(b, t, ent, Q) ==
    IF ~b.valid THEN [err |-> ErrJSONSyntax, entity |-> ent, Query |-> Q]
    ELSE IF ~IsValidTarget(t) THEN [err |-> ErrJSONTarget, entity |-> ent, Query |-> Q]
    ELSE [err    |-> IF b.mismatch THEN ErrJSONType ELSE ErrNil,
          entity |-> IF b.name.present THEN [ent EXCEPT !.name = b.name.val] ELSE ent,
          Query  |-> IF ~b.Query.present THEN Q
                     ELSE IF b.Query.null THEN NilMap
                     ELSE MakeMap([k \in (IF Q.isNil THEN {} ELSE DOMAIN Q.m)
                                            \cup DOMAIN b.Query.obj |->
                                      IF k \in DOMAIN b.Query.obj
                                      THEN b.Query.obj[k] ELSE Q.m[k]])]

\* Decode that goes on to Prepare whatever json.Unmarshal returned.
DecodeStage_NoAbort ==
    /\ pc = "Decode"
    /\ LET d == Unmarshal(body, target, entity, Query["target"])
       IN  /\ entity' = d.entity
           /\ Query' = [Query EXCEPT !["target"] = d.Query]
           /\ pc' = "Prepare"
           /\ calls' = Append(calls, Call("json.Unmarshal", d.err))
           /\ UNCHANGED <<result, bodyClosed>>
    /\ UNCHANGED <<target, recv, stream, body, bodyReads, closeDeferred, query,
                   rules, entry, ncalls, conc>>

\* Lines 75-77.
DecodeStage ==
    /\ pc = "Decode"
    /\ LET d == Unmarshal(body, target, entity, Query["target"])
       IN  /\ entity' = d.entity
           /\ Query' = [Query EXCEPT !["target"] = d.Query]
           /\ IF d.err # ErrNil
              THEN Return(d.err, Append(calls, Call("json.Unmarshal", d.err)))
              ELSE /\ pc' = "Prepare"
                   /\ calls' = Append(calls, Call("json.Unmarshal", ErrNil))
                   /\ UNCHANGED <<result, bodyClosed>>
    /\ UNCHANGED <<target, recv, stream, body, bodyReads, closeDeferred, query,
                   rules, entry, ncalls, conc>>

\* What a target's PrepareForValidation does to its fields when it
\* normalises them: surrounding blanks are removed.
Normalise(name) == IF name = " a" THEN "a" ELSE name

\* Lines 80-82: the target's hook normalises or not, and reports an error or
\* not.
PrepareStage ==
    /\ pc = "Prepare"
    /\ \E e \in {ErrNil} \cup PrepareErrors, norm \in BOOLEAN :
          /\ entity' = IF norm THEN [entity EXCEPT !.name = Normalise(@)] ELSE entity
          /\ IF e # ErrNil
             THEN Return(e, Append(calls, Call("PrepareForValidation", e)))
             ELSE /\ pc' = "Hook"
                  /\ calls' = Append(calls, Call("PrepareForValidation", ErrNil))
                  /\ UNCHANGED <<result, bodyClosed>>
    /\ UNCHANGED <<target, recv, stream, body, bodyReads, closeDeferred, Query,
                   query, rules, entry, ncalls, conc>>

\* A hook stage that calls WithValidator again after its first failure.
HookStage_RetryOnce ==
    /\ pc = "Hook"
    /\ \E e \in {ErrNil} \cup HookErrors :
          IF e # ErrNil /\ calls[Len(calls)].op = "WithValidator"
          THEN Return(e, Append(calls, Call("WithValidator", e)))
          ELSE /\ pc' = IF e # ErrNil THEN "Hook" ELSE "RuleValidate"
               /\ calls' = Append(calls, Call("WithValidator", e))
               /\ UNCHANGED <<result, bodyClosed>>
    /\ UNCHANGED <<target, recv, stream, body, bodyReads, closeDeferred, entity,
                   Query, query, rules, entry, ncalls, conc>>

\* Lines 85-87.
HookStage ==
    /\ pc = "Hook"
    /\ \E e \in {ErrNil} \cup HookErrors :
          IF e # ErrNil
          THEN Return(e, Append(calls, Call("WithValidator", e)))
          ELSE /\ pc' = "RuleValidate"
               /\ calls' = Append(calls, Call("WithValidator", ErrNil))
               /\ UNCHANGED <<result, bodyClosed>>
    /\ UNCHANGED <<target, recv, stream, body, bodyReads, closeDeferred, entity,
                   Query, query, rules, entry, ncalls, conc>>

\* validation.Struct(request, rules): a field named in the rules must not be
\* empty.
ValidateStruct(ent, rs) ==
    IF "name" \in rs /\ ent.name = "" THEN ErrNameRequired ELSE ErrNil

\* Lines 90-92: Rules() is evaluated first, then validation.Struct.
RuleValidateStage ==
    /\ pc = "RuleValidate"
    /\ LET e   == ValidateStruct(entity, rules)
           log == Append(Append(calls, Call("Rules", ErrNil)), Call("validation.Struct", e))
       IN  IF e # ErrNil
           THEN Return(e, log)
           ELSE /\ pc' = "QueryMerge"
                /\ calls' = log
                /\ UNCHANGED <<result, bodyClosed>>
    /\ UNCHANGED <<target, recv, stream, body, bodyReads, closeDeferred, entity,
                   Query, query, rules, entry, ncalls, conc>>

\* Lines 95-97: ParseQuery on the receiver, then return nil.
QueryMergeStage ==
    /\ pc = "QueryMerge"
    /\ Query' = [Query EXCEPT ![recv] = ParseQuery(@, query)]
    /\ Return(ErrNil, Append(calls, Call("ParseQuery", ErrNil)))
    /\ UNCHANGED <<target, recv, stream, body, bodyReads, closeDeferred, entity,
                   query, rules, entry, ncalls, conc>>

(* --------------------- two concurrent calls: inputs -------------------- *)

\* The two goroutines, each running one call of Validate.
Procs == {1, 2}

\* The Request instances of two concurrent calls: the one embedded in each
\* call's target, and one that belongs to neither target.
Instances == {"t1", "t2", "shared"}

\* Each call has its own target ...
TargetOf(p) == IF p = 1 THEN "t1" ELSE "t2"

\* ... and its own request: a body stream and a query string.
ConcStreams ==
    {[err |-> "connection reset", data |-> NoBody],
     [err |-> ErrNil,
      data |-> [valid |-> TRUE, mismatch |-> FALSE, name |-> Member("a"),
                Query |-> NoQueryMember]],
     [err |-> ErrNil,
      data |-> [valid |-> TRUE, mismatch |-> FALSE, name |-> Member(""),
                Query |-> QueryMember([k \in {"z"} |-> StringValue(<<"v">>)])]]}

ConcQueries ==
    {NoParams,
     [k \in {"a"} |-> << <<"1">> >>],
     [k \in {"a", "b"} |-> IF k = "a" THEN << <<"3", "0">> >> ELSE << <<"x">> >>]}

\* No concurrent calls are running (Spec, SpecInfer).
ConcIdle ==
    [pc       |-> [p \in Procs |-> "Idle"],
     recv     |-> [p \in Procs |-> TargetOf(p)],
     stream   |-> [p \in Procs |-> [err |-> ErrNil, data |-> NoBody]],
     body     |-> [p \in Procs |-> NoBody],
     deferred |-> [p \in Procs |-> FALSE],
     closed   |-> [p \in Procs |-> FALSE],
     entity   |-> [p \in Procs |-> [name |-> ""]],
     query    |-> [p \in Procs |-> NoParams],
     todo     |-> [p \in Procs |-> {}],
     sawNil   |-> [p \in Procs |-> FALSE],
     Query    |-> [x \in Instances |-> NilMap],
     result   |-> [p \in Procs |-> "pending"],
     acc      |-> {}]

\* A caller invokes r.Validate(request, req) with a live, unread body.  A
\* receiver embedded in the target needs a target that exists.
Init ==
    /\ pc = "TypeCheck"
    /\ target \in Targets
    /\ recv \in Requests
    /\ target \in {"nil", "typednil"} => recv = "other"
    /\ stream \in Streams
    /\ body = NoBody
    /\ bodyReads = 0
    /\ bodyClosed = FALSE
    /\ closeDeferred = FALSE
    /\ entity = [name |-> ""]
    /\ Query \in [Requests -> InitialQueries]
    /\ query \in PipelineQueries
    /\ rules \in RuleSets
    /\ calls = <<>>
    /\ result = "pending"
    /\ entry = [Query |-> Query["target"], entity |-> entity]
    /\ ncalls = 0
    /\ conc = ConcIdle

Next ==
    \/ TypeCheckStage
    \/ BodyReadStage
    \/ DecodeStage
    \/ PrepareStage
    \/ HookStage
    \/ RuleValidateStage
    \/ QueryMergeStage

Spec == Init /\ [][Next]_vars

\* Validate runs on the calling goroutine without suspension and every
\* collaborator it calls returns: a stage that can run does run.
SpecLive == Spec /\ WF_vars(Next)

(* ---------------------- ParseQuery applied directly -------------------- *)

\* A caller applies ParseQuery to a Request with the same request, up to
\* MaxCalls times.
DirectParseQuery ==
    /\ pc = "Direct"
    /\ ncalls < MaxCalls
    /\ ncalls' = ncalls + 1
    /\ Query' = [Query EXCEPT ![recv] = ParseQuery(@, query)]
    /\ calls' = Append(calls, Call("ParseQuery", ErrNil))
    /\ UNCHANGED <<pc, target, recv, stream, body, bodyReads, bodyClosed,
                   closeDeferred, entity, query, rules, result, entry, conc>>

InitInfer ==
    /\ pc = "Direct"
    /\ target = "ptr"
    /\ recv = "target"
    /\ stream = [err |-> ErrNil, data |-> NoBody]
    /\ body = NoBody
    /\ bodyReads = 0
    /\ bodyClosed = FALSE
    /\ closeDeferred = FALSE
    /\ entity = [name |-> ""]
    /\ Query \in [Requests -> InitialQueries]
    /\ Query["other"] = NilMap
    /\ query \in InferQueries
    /\ rules = {}
    /\ calls = <<>>
    /\ result = "pending"
    /\ entry = [Query |-> Query["target"], entity |-> entity]
    /\ ncalls = 0
    /\ conc = ConcIdle

NextInfer == DirectParseQuery

SpecInfer == InitInfer /\ [][NextInfer]_vars

(* ------------------------- two concurrent calls ------------------------ *)

\* One access of goroutine p to the Query of a Request instance: a read or
\* a write (w).
Access(p, obj, w) == [p |-> p, obj |-> obj, w |-> w]

\* A return statement of call p: the error goes to its caller and the
\* deferred Close, when registered, runs.
CReturn(c, p, err) ==
    [c EXCEPT !.pc[p] = "Returned", !.result[p] = err,
              !.closed[p] = c.closed[p] \/ c.deferred[p]]

\* Lines 62-65 of call p: its target is a pointer to its own instance.
CTypeCheck(p) ==
    /\ conc.pc[p] = "TypeCheck"
    /\ conc' = IF IsValidTarget("ptr")
               THEN [conc EXCEPT !.pc[p] = "BodyRead"]
               ELSE CReturn(conc, p, ErrInvalidTarget)
    /\ UNCHANGED seqVars

\* Lines 68-72 of call p.
CBodyRead(p) ==
    /\ conc.pc[p] = "BodyRead"
    /\ conc' = IF conc.stream[p].err # ErrNil
               THEN CReturn(conc, p, conc.stream[p].err)
               ELSE [conc EXCEPT !.pc[p] = "Decode",
                                 !.body[p] = conc.stream[p].data,
                                 !.deferred[p] = TRUE]
    /\ UNCHANGED seqVars

\* What json.Unmarshal of call p leaves behind: the decoded fields, and a
\* write of the target's Query when the body has a Query member.
CDecoded(c, p, d) ==
    [c EXCEPT !.entity[p] = d.entity,
              !.Query[TargetOf(p)] = d.Query,
              !.acc = IF c.body[p].valid /\ c.body[p].Query.present
                      THEN @ \cup {Access(p, TargetOf(p), TRUE)} ELSE @]

\* Lines 75-77 of call p.
CDecode(p) ==
    /\ conc.pc[p] = "Decode"
    /\ LET d == Unmarshal(conc.body[p], "ptr", conc.entity[p], conc.Query[TargetOf(p)])
       IN  conc' = IF d.err # ErrNil
                   THEN CReturn(CDecoded(conc, p, d), p, d.err)
                   ELSE [CDecoded(conc, p, d) EXCEPT !.pc[p] = "Prepare"]
    /\ UNCHANGED seqVars

\* Lines 80-82 of call p.
CPrepare(p) ==
    /\ conc.pc[p] = "Prepare"
    /\ \E e \in {ErrNil} \cup PrepareErrors :
          conc' = IF e # ErrNil THEN CReturn(conc, p, e)
                  ELSE [conc EXCEPT !.pc[p] = "Hook"]
    /\ UNCHANGED seqVars

\* Lines 85-87 of call p.
CHook(p) ==
    /\ conc.pc[p] = "Hook"
    /\ \E e \in {ErrNil} \cup HookErrors :
          conc' = IF e # ErrNil THEN CReturn(conc, p, e)
                  ELSE [conc EXCEPT !.pc[p] = "RuleValidate"]
    /\ UNCHANGED seqVars

\* Lines 90-92 of call p, the name being required.
CRuleValidate(p) ==
    /\ conc.pc[p] = "RuleValidate"
    /\ LET e == ValidateStruct(conc.entity[p], {"name"})
       IN  conc' = IF e # ErrNil THEN CReturn(conc, p, e)
                   ELSE [conc EXCEPT !.pc[p] = "ParseQuery"]
    /\ UNCHANGED seqVars

\* Lines 95 and 30 of call p: ParseQuery on the receiver reads r.Query and
\* compares it with nil.
CParseQueryCheck(p) ==
    /\ conc.pc[p] = "ParseQuery"
    /\ conc' = [conc EXCEPT !.pc[p] = "Make",
                            !.sawNil[p] = conc.Query[conc.recv[p]].isNil,
                            !.acc = @ \cup {Access(p, conc.recv[p], FALSE)}]
    /\ UNCHANGED seqVars

\* Lines 31 and 35 of call p: a Query seen nil is replaced by a fresh map;
\* the keys of the query string are the ones to visit.
CParseQueryMake(p) ==
    /\ conc.pc[p] = "Make"
    /\ conc' = [conc EXCEPT !.pc[p] = "Range",
                            !.todo[p] = DOMAIN conc.query[p],
                            !.Query[conc.recv[p]] =
                                IF conc.sawNil[p] THEN MakeMap(EmptyMap) ELSE @,
                            !.acc = IF conc.sawNil[p]
                                    THEN @ \cup {Access(p, conc.recv[p], TRUE)} ELSE @]
    /\ UNCHANGED seqVars

\* Another goroutine is inside the loop of lines 38-56 on the same Request.
Racing(c, p) ==
    \E q \in Procs \ {p} : c.pc[q] = "Range" /\ c.recv[q] = c.recv[p]

\* The runtime's "fatal error: concurrent map writes" ends the program.
Crashed(c) == [c EXCEPT !.pc = [q \in Procs |-> "Crashed"]]

\* r.Query[key] = the inferred value of the key's first value.
Put(Q, key, value) ==
    MakeMap([k \in DOMAIN Q.m \cup {key} |-> IF k = key THEN value ELSE Q.m[k]])

\* Lines 38-56 of call p, one key of the range: the entry is written; a
\* write that races with another goroutine's loop on the same map either
\* goes through or is caught by the runtime.
CParseQueryPut(p) ==
    /\ conc.pc[p] = "Range"
    /\ \E key \in conc.todo[p], caught \in BOOLEAN :
          /\ caught => Racing(conc, p)
          /\ conc' = IF caught THEN Crashed(conc)
                     ELSE [conc EXCEPT
                             !.todo[p] = @ \ {key},
                             !.Query[conc.recv[p]] =
                                 Put(@, key, InferValue(conc.query[p][key][1])),
                             !.acc = @ \cup {Access(p, conc.recv[p], TRUE)}]
    /\ UNCHANGED seqVars

\* Lines 57 and 97 of call p: the range is over, Validate returns nil.
CQueryMergeReturn(p) ==
    /\ conc.pc[p] = "Range"
    /\ conc.todo[p] = {}
    /\ conc' = CReturn(conc, p, ErrNil)
    /\ UNCHANGED seqVars

\* Two goroutines call Validate, each with its own target and its own
\* request, on any receivers.
InitConc ==
    /\ pc = "Concurrent"
    /\ target = "ptr"
    /\ recv = "target"
    /\ stream = [err |-> ErrNil, data |-> NoBody]
    /\ body = NoBody
    /\ bodyReads = 0
    /\ bodyClosed = FALSE
    /\ closeDeferred = FALSE
    /\ entity = [name |-> ""]
    /\ Query = [x \in Requests |-> NilMap]
    /\ query = NoParams
    /\ rules = {}
    /\ calls = <<>>
    /\ result = "pending"
    /\ entry = [Query |-> NilMap, entity |-> entity]
    /\ ncalls = 0
    /\ \E r \in [Procs -> Instances], s \in [Procs -> ConcStreams],
          q \in [Procs -> ConcQueries] :
          conc = [ConcIdle EXCEPT !.pc = [p \in Procs |-> "TypeCheck"],
                                  !.recv = r, !.stream = s, !.query = q]

NextConc ==
    \E p \in Procs :
       \/ CTypeCheck(p)
       \/ CBodyRead(p)
       \/ CDecode(p)
       \/ CPrepare(p)
       \/ CHook(p)
       \/ CRuleValidate(p)
       \/ CParseQueryCheck(p)
       \/ CParseQueryMake(p)
       \/ CParseQueryPut(p)
       \/ CQueryMergeReturn(p)

SpecConc == InitConc /\ [][NextConc]_vars

(* ------------------------------- claims -------------------------------- *)

\* The calls of the pipeline's stages, in the order the code makes them.
StageOrder ==
    <<"TypeCheck", "io.ReadAll", "json.Unmarshal", "PrepareForValidation",
      "WithValidator", "Rules", "validation.Struct", "ParseQuery">>

IsStageCall(c) == c.op # "Body.Close"

StageCalls == SelectSeq(calls, IsStageCall)

Failed(run, i) == run[i].err # ErrNil

\* C1: the stages run only in the order TypeCheck, BodyRead, Decode,
\* Prepare, Hook, RuleValidate, QueryMerge; a stage that failed is the last
\* one that ran, and a Validate that returned an error ran nothing after the
\* failing stage.
C1_StagesInOrderFailFast ==
    /\ Len(StageCalls) <= Len(StageOrder)
    /\ \A i \in 1..Len(StageCalls) :
          /\ StageCalls[i].op = StageOrder[i]
          /\ Failed(StageCalls, i) => i = Len(StageCalls)
    /\ (pc = "Returned" /\ result # ErrNil) =>
          /\ StageCalls # <<>>
          /\ Failed(StageCalls, Len(StageCalls))

\* A body that failed Decode, and Validate has returned.
C1_Witness ==
    /\ pc = "Returned"
    /\ \E i \in 1..Len(calls) : calls[i].op = "json.Unmarshal" /\ calls[i].err # ErrNil

\* C2: on every exit path of Validate the body stream has been closed by
\* the time Validate returns.
C2_BodyClosedOnEveryExit == pc = "Returned" => bodyClosed

\* C3: a Validate that returns an error leaves the target's Query as it was
\* when Validate was called.
C3_QueryUnchangedOnError ==
    (pc = "Returned" /\ result # ErrNil) => Query["target"] = entry.Query

\* C4: a nil, typed-nil or non-pointer target is rejected with the
\* invalid-target error, without a read of the body and without any call of
\* a later stage.
C4_InvalidTargetRejected ==
    target \in {"nil", "typednil", "nonptr"} =>
        /\ pc \in {"TypeCheck", "Returned"}
        /\ bodyReads = 0
        /\ \A i \in 1..Len(calls) : calls[i].op = "TypeCheck"
        /\ pc = "Returned" => result = ErrInvalidTarget

\* A typed nil pointer was passed and Validate has returned.
C4_Witness == pc = "Returned" /\ target = "typednil" /\ result = ErrInvalidTarget

HoldsInference(Q, k) ==
    /\ ~Q.isNil
    /\ k \in DOMAIN Q.m
    /\ Q.m[k] = InferValue(query[k][1])

\* C5: after a successful Validate the Query of the target passed as first
\* argument holds the inference result of the request's query string,
\* whatever the receiver.
C5_TargetQueryHoldsInference ==
    (pc = "Returned" /\ result = ErrNil) =>
        \A k \in DOMAIN query : HoldsInference(Query["target"], k)

\* C6 as stated: after a successful Validate the Query that QueryMerge wrote
\* has exactly the request's parameter names as keys, each with its inferred
\* value.
C6_QueryIsExactlyInference ==
    (pc = "Returned" /\ result = ErrNil) =>
        /\ \A k \in DOMAIN query : HoldsInference(Query[recv], k)
        /\ DOMAIN Query[recv].m = DOMAIN query

KeysOf(Q) == IF Q.isNil THEN {} ELSE DOMAIN Q.m

MergedFrom(old, new) ==
    /\ ~new.isNil
    /\ DOMAIN new.m = KeysOf(old) \cup DOMAIN query
    /\ \A k \in DOMAIN query : new.m[k] = InferValue(query[k][1])
    /\ \A k \in KeysOf(old) \ DOMAIN query : new.m[k] = old.m[k]

\* C6 amended: QueryMerge ends Validate with success and leaves in the
\* receiver's Query, for every parameter name, the value inferred from the
\* parameter's first value, and besides those exactly the entries Query held
\* before QueryMerge, unchanged.
C6_QueryMergesInference ==
    [][pc = "QueryMerge" =>
          /\ pc' = "Returned"
          /\ result' = ErrNil
          /\ MergedFrom(Query[recv], Query'[recv])]_vars

\* A successful Validate whose Query keeps an entry no parameter names.
C6_Witness ==
    /\ pc = "Returned"
    /\ result = ErrNil
    /\ query # NoParams
    /\ \E k \in KeysOf(Query[recv]) : k \notin DOMAIN query

\* C7: Validate returns the error of the first failing stage as that stage
\* produced it, and returns nil exactly when every stage ran without error,
\* QueryMerge included.
C7_FirstErrorVerbatim ==
    pc = "Returned" =>
        /\ result = ErrNil <=>
              /\ Len(StageCalls) = Len(StageOrder)
              /\ \A i \in 1..Len(StageCalls) : ~Failed(StageCalls, i)
        /\ result # ErrNil =>
              \E i \in 1..Len(StageCalls) :
                  /\ StageCalls[i].err = result
                  /\ \A j \in 1..(i - 1) : ~Failed(StageCalls, j)

\* PrepareForValidation failed and Validate returned its error.
C7_Witness == pc = "Returned" /\ result \in PrepareErrors

Accepted(r) == r.err = ErrNil

\* What C8 says of raw value v and the value got stored for it.
InOrder(v, got) ==
    /\ Accepted(Atoi(v)) => got.kind = "int"
    /\ (~Accepted(Atoi(v)) /\ Accepted(ParseFloat(v))) => got.kind = "float"
    /\ got.kind = "bool" =>
          /\ ~Accepted(Atoi(v))
          /\ ~Accepted(ParseFloat(v))
          /\ Accepted(ParseBool(v))
    /\ v \in {<<"1">>, <<"0">>} => got.kind = "int"

\* C8: a value the integer parser accepts is stored as an integer ("1" and
\* "0" among them), one it rejects and the float parser accepts as a float,
\* and a boolean is stored only when both numeric parsers reject the value.
C8_IntFloatBoolOrder ==
    ncalls >= 1 => \A k \in DOMAIN query : InOrder(query[k][1], Query[recv].m[k])

\* "1", which all three parsers accept, has been stored as an integer.
C8_Witness ==
    /\ ncalls >= 1
    /\ "a" \in DOMAIN query
    /\ query["a"][1] = <<"1">>
    /\ Query[recv].m["a"].kind = "int"

\* An optional sign followed by one or more decimal digits.
Unsigned(v) == IF Len(v) >= 1 /\ v[1] \in {"+", "-"} THEN Tail(v) ELSE v

IsBase10Integer(v) ==
    /\ Unsigned(v) # <<>>
    /\ \A i \in 1..Len(Unsigned(v)) : Unsigned(v)[i] \in Digit

\* The value lies in -2^63 .. 2^63 - 1.
InIntRange(v) ==
    MagLeq(StripLeadingZeros(Unsigned(v)), IF v[1] = "-" THEN MinIntMag ELSE MaxIntMag)

\* C9 as stated: every first value that is syntactically a base-10 integer
\* is stored as an integer, whatever its magnitude.
C9_IntegerSyntaxIsInteger ==
    ncalls >= 1 =>
        \A k \in DOMAIN query :
            IsBase10Integer(query[k][1]) => Query[recv].m[k].kind = "int"

\* C9 amended: a first value that is syntactically a base-10 integer within
\* the range of the int type is stored as an integer; one outside that range
\* is not: it is stored as a float, or as a string when it has more digits
\* than a float64 can hold.
C9_IntegerInRangeIsInteger ==
    ncalls >= 1 =>
        \A k \in DOMAIN query :
            IsBase10Integer(query[k][1]) =>
                IF InIntRange(query[k][1])
                THEN Query[recv].m[k].kind = "int"
                ELSE \/ Query[recv].m[k].kind = "float"
                     \/ /\ Query[recv].m[k].kind = "string"
                        /\ Len(query[k][1]) >= 309

\* 2^63, one more than the largest int, has been stored as a float.
C9_Witness ==
    /\ ncalls >= 1
    /\ "a" \in DOMAIN query
    /\ query["a"][1] = MinIntMag
    /\ Query[recv].m["a"].kind = "float"

\* C10: the body is read at most once, exactly once when TypeCheck passed,
\* and never after it has been closed.
C10_BodyReadOnce ==
    /\ bodyReads <= 1
    /\ bodyReads = Cardinality({i \in 1..Len(calls) : calls[i].op = "io.ReadAll"})
    /\ (pc = "Returned" /\ calls[1].err = ErrNil) => bodyReads = 1
    /\ \A i, j \in 1..Len(calls) :
          (calls[i].op = "Body.Close" /\ calls[j].op = "io.ReadAll") => j < i
    /\ bodyClosed => pc = "Returned"

\* Validate has returned after reading the body once and closing it.
C10_Witness == pc = "Returned" /\ bodyReads = 1 /\ bodyClosed

\* Two accesses of different goroutines to the Query of one Request
\* instance, at least one of them a write.
Conflict(a, b) == a.p # b.p /\ a.obj = b.obj /\ (a.w \/ b.w)

\* C11: two concurrent calls of Validate with distinct targets and distinct
\* requests never access the same Query with one of the accesses a write,
\* whichever receivers the calls are made on.
C11_NoSharedQueryAccess ==
    \A a \in conc.acc : \A b \in conc.acc : ~Conflict(a, b)

\* The step leaves every field of the target as it is.
TargetKept == entity' = entity /\ Query'["target"] = Query["target"]

\* The step leaves the target as it was passed to Validate.
TargetAsPassed == entity' = entry.entity /\ Query'["target"] = entry.Query

\* C12: TypeCheck, BodyRead and RuleValidate leave every field of the target
\* unchanged, and a Validate that fails at TypeCheck or BodyRead returns
\* with the target exactly as it was passed in.
C12_TargetKeptOutsideDecodeAndMerge ==
    [][/\ pc \in {"TypeCheck", "BodyRead", "RuleValidate"} => TargetKept
       /\ (pc \in {"TypeCheck", "BodyRead"} /\ pc' = "Returned") => TargetAsPassed]_vars

\* Validate has failed at BodyRead on a target that came with entries in its
\* Query, and the entries are still there.
C12_Witness ==
    /\ pc = "Returned"
    /\ result \in ReadErrors
    /\ ~entry.Query.isNil
    /\ Query["target"] = entry.Query

\* The parameter names of the query string that carry more than one value.
MultiValued == {k \in DOMAIN query : Len(query[k]) > 1}

\* C13: for every parameter that carries more than one value, Query holds
\* one entry under its name, inferred from the first value only.
C13_FirstValueOnly ==
    ncalls >= 1 =>
        \A k \in MultiValued :
            /\ k \in KeysOf(Query[recv])
            /\ Query[recv].m[k] = InferValue(query[k][1])

\* ?a=1&a=x has been parsed: the entry is the integer of "1", not the
\* string of "x".
C13_Witness ==
    /\ ncalls >= 1
    /\ "a" \in MultiValued
    /\ query["a"] = << <<"1">>, <<"x">> >>
    /\ Query[recv].m["a"].kind = "int"

\* None of the three parsers accepts the raw value.
AllReject(v) ==
    ~Accepted(Atoi(v)) /\ ~Accepted(ParseFloat(v)) /\ ~Accepted(ParseBool(v))

\* What C14 says of raw value v and the value got stored for it.
TotalInference(v, got) ==
    /\ got.kind \in {"int", "float", "bool", "string"}
    /\ AllReject(v) => got = StringValue(v)
    /\ v = <<>> => got = StringValue(<<>>)

\* C14: for every raw value, the empty string included, ParseQuery stores
\* an integer, a float, a boolean or a string under the key, and a value
\* that none of the three parsers accepts is stored as the string it is.
C14_InferenceTotal ==
    ncalls >= 1 =>
        \A k \in DOMAIN query :
            /\ k \in KeysOf(Query[recv])
            /\ TotalInference(query[k][1], Query[recv].m[k])

\* ?a= has been parsed: no parser accepts the empty string, and it is stored
\* as the empty string.
C14_Witness ==
    /\ ncalls >= 1
    /\ "a" \in DOMAIN query
    /\ query["a"][1] = <<>>
    /\ AllReject(query["a"][1])
    /\ Query[recv].m["a"] = StringValue(<<>>)

\* No call of the log is made twice.
EachCallOnce ==
    \A i \in 1..Len(calls) : \A j \in 1..Len(calls) :
        calls[i].op = calls[j].op => i = j

\* Validate has returned: with nil after ParseQuery, or with the error of
\* the stage that ran last.
Terminal ==
    /\ pc = "Returned"
    /\ StageCalls # <<>>
    /\ IF result = ErrNil
       THEN StageCalls[Len(StageCalls)].op = "ParseQuery"
       ELSE StageCalls[Len(StageCalls)].err = result

\* C15: every call of Validate whose collaborators return reaches a terminal
\* state, success after QueryMerge or failure at the first failing stage,
\* and no stage runs twice within the call.
C15_TerminatesEachStageOnce ==
    /\ <>Terminal
    /\ [](pc = "Returned" => Terminal)
    /\ []EachCallOnce

\* Validate has ended at a failing WithValidator, called once.
C15_Witness ==
    /\ Terminal
    /\ result \in HookErrors
    /\ Len(StageCalls) = 5
    /\ EachCallOnce

\* C16: applying ParseQuery again with the same request leaves Query exactly
\* as the first application left it.
C16_ParseQueryIdempotent ==
    [][ncalls >= 1 => Query' = Query]_vars

\* ParseQuery has been applied twice with a query string that has
\* parameters, and Query is what one application makes of it.
C16_Witness ==
    /\ ncalls = 2
    /\ query # NoParams
    /\ Query[recv] = ParseQuery(entry.Query, query)

\* The entries of old that no parameter names are in new as they were.
Retained(old, new) ==
    \A k \in KeysOf(old) \ DOMAIN query :
        k \in KeysOf(new) /\ new.m[k] = old.m[k]

\* The entries of new that a parameter names hold the inferred value.
Overwritten(new) ==
    \A k \in DOMAIN query :
        k \in KeysOf(new) /\ new.m[k] = InferValue(query[k][1])

\* C17: ParseQuery merges into the Query it finds: an entry whose key the
\* query string lacks stays as it was, an entry whose key it has is
\* overwritten with the inferred value, and a nil Query becomes a map that
\* holds the inferred entries and nothing else.
C17_ParseQueryMerges ==
    ncalls >= 1 =>
        /\ ~Query[recv].isNil
        /\ Retained(entry.Query, Query[recv])
        /\ Overwritten(Query[recv])
        /\ entry.Query.isNil => KeysOf(Query[recv]) = DOMAIN query

\* ParseQuery has run on a Query that held "a" and "z" with a query string
\* that has "a" only: "z" is as it was and "a" has changed.
C17_Witness ==
    /\ ncalls >= 1
    /\ KeysOf(entry.Query) = {"a", "z"}
    /\ DOMAIN query = {"a"}
    /\ Query[recv].m["z"] = entry.Query.m["z"]
    /\ Query[recv].m["a"] # entry.Query.m["a"]


====
